---- MODULE Spec2Model ----
(***************************************************************************)
(* Model of src/main.py: the batch text-cleaning run.                      *)
(*                                                                         *)
(*   clean_single_text        one call of the chat-completion service      *)
(*   process_directory        the per-directory file loop                  *)
(*   process_root_directory   the walk over the first-level directories    *)
(*   __main__                 the entry point and the process exit status  *)
(*                                                                         *)
(* Strings are sequences of tokens (<<"a", ".txt">> is "a.txt", <<>> is    *)
(* the empty string), paths are sequences of components, so that           *)
(* str.endswith, str.strip, os.path.join and the f-string of the output    *)
(* name are computed rather than assumed.  What the file system and the    *)
(* service answer is the environment: it is drawn when the code asks.      *)
(***************************************************************************)
EXTENDS Integers, Sequences, FiniteSets

VARIABLES
    pc,                 \* where the run is
    rootExists,         \* os.path.exists(ROOT_SOURCE_FOLDER)
    rootEntries,        \* what os.listdir(ROOT_SOURCE_FOLDER) yields
    all_dirs,           \* process_root_directory: the units (dir_name, source_dir)
    unitIdx,            \* position of the for loop over all_dirs
    dir_results,        \* process_root_directory: one record per unit
    total_success,      \* process_root_directory totals
    total_skip,
    total_files,
    total_api_time,
    source_dir,         \* process_directory: its arguments ...
    output_dir,
    entries,            \* history, kept when traced: what
                        \* os.listdir(source_dir) yielded
    txt_files,          \* ... and its locals
    idx,                \* position of the for loop over txt_files
    success_count,
    skip_count,
    pd_total_api_time,  \* process_directory's own total_api_time
    ret,                \* the tuple process_directory returned
    traced,             \* whether the histories entries and log are kept
    log,                \* history, kept when traced: per file of the current
                        \* directory, what the environment answered and
                        \* what the loop did
    outDirs,            \* output directories that exist
    outFiles,           \* output files written by this run
    apiCalls,           \* number of client.chat.completions.create calls
    uncaught,           \* the call whose exception nothing caught ("" if none)
    exitStatus          \* the process exit status (-1 while running)

vars == <<pc, rootExists, rootEntries, all_dirs, unitIdx, dir_results,
          total_success, total_skip, total_files, total_api_time,
          source_dir, output_dir, entries, txt_files, idx, success_count,
          skip_count, pd_total_api_time, ret, traced, log, outDirs,
          outFiles, apiCalls, uncaught, exitStatus>>

-----------------------------------------------------------------------------
(* Bounds of the model *)

\* longest directory listing the file system yields
MaxEntries == 2
\* longest measured duration of one service call, in clock ticks
MaxDur == 2
\* longest file content, in characters
MaxContentLen == 1

-----------------------------------------------------------------------------
(* Configuration, lines 7-8 *)

ROOT_SOURCE_FOLDER == << <<"part2">> >>
ROOT_OUTPUT_FOLDER == << <<"cleaned_txt_part2">> >>

\* the name a unit with an empty dir_name is recorded under: the literal of
\* lines 136 and 151, three Chinese characters reading "root directory",
\* written here in ASCII
ROOT_LABEL == <<"gen-mu-lu">>

\* the marker the output file name starts with (line 86)
OUTPUT_PREFIX == "cleaned_"

-----------------------------------------------------------------------------
(* The environment: directory entries, file contents, service replies *)

\* what a listing can hold: regular files and directories, with or without
\* the .txt suffix
EntryPool ==
    { [name |-> <<"a", ".txt">>, kind |-> "file"],
      [name |-> <<"b", ".txt">>, kind |-> "file"],
      [name |-> <<"n", ".md">>,  kind |-> "file"],
      [name |-> <<"alpha">>,     kind |-> "dir"],
      [name |-> <<"d", ".txt">>, kind |-> "dir"] }

\* a listing names every entry once, in whatever order the storage yields
Listings ==
    UNION { { s \in [1..n -> EntryPool] :
                \A i, j \in 1..n : i # j => s[i].name # s[j].name } :
            n \in 0..MaxEntries }

Chars == {" ", "x"}
Whitespace == {" "}

Contents == UNION { [1..n -> Chars] : n \in 0..MaxContentLen }

\* a content of whitespace only (the empty content included)
IsBlank(c) == \A i \in 1..Len(c) : c[i] \in Whitespace

\* str.strip(): drop the leading and the trailing whitespace
RECURSIVE LStrip(_)
LStrip(s) ==
    IF s # <<>> /\ Head(s) \in Whitespace THEN LStrip(Tail(s)) ELSE s

RECURSIVE RStrip(_)
RStrip(s) ==
    IF s # <<>> /\ s[Len(s)] \in Whitespace
    THEN RStrip(SubSeq(s, 1, Len(s) - 1))
    ELSE s

\* (variant: nothing is stripped)
StripIdentity(s) == s

Strip(s) == RStrip(LStrip(s))

\* What the environment answers for one file: the read (line 66), the
\* content read, the service call (line 24: it raises, or replies with a
\* message whose content is null, or with text), the measured duration of a
\* call that returned (line 33) and the write (line 89).  Answers the code
\* never asks for are not drawn ("na", 0).
FileEnvs ==
    { [read |-> "err", content |-> <<>>, api |-> "na", dur |-> 0, write |-> "na"] }
    \cup
    { [read |-> "ok", content |-> c, api |-> "na", dur |-> 0, write |-> "na"] :
        c \in { x \in Contents : IsBlank(x) } }
    \cup
    { [read |-> "ok", content |-> c, api |-> "raise", dur |-> 0, write |-> "na"] :
        c \in { x \in Contents : ~IsBlank(x) } }
    \cup
    { [read |-> "ok", content |-> c, api |-> "null", dur |-> d, write |-> "na"] :
        c \in { x \in Contents : ~IsBlank(x) }, d \in 1..MaxDur }
    \cup
    { [read |-> "ok", content |-> c, api |-> "text", dur |-> d, write |-> w] :
        c \in { x \in Contents : ~IsBlank(x) }, d \in 1..MaxDur,
        w \in {"ok", "err"} }

-----------------------------------------------------------------------------
(* Pure parts of the code *)

\* os.path.join(dir, name)
Join(dir, name) == Append(dir, name)

\* f.endswith('.txt')
EndsWithTxt(name) == name # <<>> /\ name[Len(name)] = ".txt"

\* (variant of TxtFiles: the suffix alone decides, os.path.isfile is not
\* asked)
RECURSIVE TxtFilesNoIsfile(_)
TxtFilesNoIsfile(listing) ==
    IF listing = <<>> THEN <<>>
    ELSE IF EndsWithTxt(Head(listing).name)
         THEN <<Head(listing).name>> \o TxtFilesNoIsfile(Tail(listing))
         ELSE TxtFilesNoIsfile(Tail(listing))

\* the filter of lines 43-44, over a listing, in listing order
RECURSIVE TxtFiles(_)
TxtFiles(listing) ==
    IF listing = <<>> THEN <<>>
    ELSE IF EndsWithTxt(Head(listing).name) /\ Head(listing).kind = "file"
         THEN <<Head(listing).name>> \o TxtFiles(Tail(listing))
         ELSE TxtFiles(Tail(listing))

\* lines 113-117: the first-level subdirectories, in listing order
RECURSIVE SubDirs(_)
SubDirs(listing) ==
    IF listing = <<>> THEN <<>>
    ELSE IF Head(listing).kind = "dir"
         THEN <<[name |-> Head(listing).name,
                 path |-> Join(ROOT_SOURCE_FOLDER, Head(listing).name)]>>
              \o SubDirs(Tail(listing))
         ELSE SubDirs(Tail(listing))

\* (variant of Units: the root is a unit whether or not it has
\* subdirectories)
UnitsRootAlways(listing) ==
    <<[name |-> <<>>, path |-> ROOT_SOURCE_FOLDER]>> \o SubDirs(listing)

\* lines 113-122: the units; the root itself when it has no subdirectory
Units(listing) ==
    IF SubDirs(listing) = <<>>
    THEN <<[name |-> <<>>, path |-> ROOT_SOURCE_FOLDER]>>
    ELSE SubDirs(listing)

\* lines 139-142
OutputDir(dir_name) ==
    IF dir_name # <<>> THEN Join(ROOT_OUTPUT_FOLDER, dir_name)
    ELSE ROOT_OUTPUT_FOLDER

\* lines 86-87
OutputPath(out_dir, filename) == Join(out_dir, <<OUTPUT_PREFIX>> \o filename)

\* clean_single_text, lines 20-37: <<cleaned_content, api_elapsed>>;
\* "None" is Python's None
clean_single_text(env) ==
    IF env.api = "raise" THEN <<"None", 0>>
    ELSE IF env.api = "null" THEN <<"None", env.dur>>
    ELSE <<"text", env.dur>>

\* (variant of LoopBody: success_count is incremented before the write is
\* attempted)
LoopBodyCountBeforeWrite(st, out_dir, filename, env) ==
    IF env.read = "err" THEN st
    ELSE IF Strip(env.content) = <<>>
    THEN [st EXCEPT !.skip_count = @ + 1]
    ELSE LET r == clean_single_text(env)
             st1 == [st EXCEPT !.total_api_time = @ + r[2],
                               !.apiCalls = @ + 1]
         IN  IF r[1] # "None"
             THEN IF env.write = "ok"
                  THEN [st1 EXCEPT
                          !.outFiles = @ \cup {OutputPath(out_dir, filename)},
                          !.success_count = @ + 1]
                  ELSE [st1 EXCEPT !.success_count = @ + 1]
             ELSE st1

\* One pass of the loop body, lines 59-96, over the locals and the outside
\* world it acts on: st = [success_count, skip_count, total_api_time,
\* outFiles, apiCalls].
LoopBody(st, out_dir, filename, env) ==
    IF env.read = "err" THEN st                         \* lines 65-70
    ELSE IF Strip(env.content) = <<>>                   \* lines 73-76
    THEN [st EXCEPT !.skip_count = @ + 1]
    ELSE LET r == clean_single_text(env)                \* lines 79-80
             st1 == [st EXCEPT !.total_api_time = @ + r[2],
                               !.apiCalls = @ + 1]
         IN  IF r[1] # "None"                           \* line 84
             THEN IF env.write = "ok"                   \* lines 88-94
                  THEN [st1 EXCEPT
                          !.outFiles = @ \cup {OutputPath(out_dir, filename)},
                          !.success_count = @ + 1]
                  ELSE st1
             ELSE st1                                   \* lines 95-96

\* (variant of NextIndex: a failed service call ends the loop)
NextIndexBreak(i, n, env) ==
    IF env.read = "ok" /\ env.api \in {"raise", "null"} THEN n + 1 ELSE i + 1

\* the for loop of line 59: every path through the body (the two continue
\* statements, the end of the body) goes on to the next file
NextIndex(i, n, env) == i + 1

\* (variant of ReturnTuple: the file count is that of the files counted)
ReturnTupleCounted(sc, sk, files, api) == <<sc, sk, sc + sk, api>>

\* line 98
ReturnTuple(sc, sk, files, api) == <<sc, sk, Len(files), api>>

\* lines 150-157 (the wall-clock 'time' is left out)
DirRecord(dir_name, r) ==
    [ name     |-> IF dir_name # <<>> THEN dir_name ELSE ROOT_LABEL,
      success  |-> r[1],
      skip     |-> r[2],
      total    |-> r[3],
      api_time |-> r[4] ]

\* (variant of FoldTotals: total_files grows by the files counted)
FoldTotalsFilesDone(tot, r) ==
    [ success  |-> tot.success + r[1],
      skip     |-> tot.skip + r[2],
      files    |-> tot.files + r[1] + r[2],
      api_time |-> tot.api_time + r[4] ]

\* lines 160-163, over tot = [success, skip, files, api_time]
FoldTotals(tot, r) ==
    [ success  |-> tot.success + r[1],
      skip     |-> tot.skip + r[2],
      files    |-> tot.files + r[3],
      api_time |-> tot.api_time + r[4] ]

-----------------------------------------------------------------------------
(* The run *)

\* The state once the module has been loaded (lines 1-17): the output root
\* has been created (line 13); an output directory of an earlier run may be
\* there already.
Init ==
    /\ pc = "start"
    /\ rootExists \in BOOLEAN
    /\ rootEntries = <<>>
    /\ all_dirs = <<>>
    /\ unitIdx = 1
    /\ dir_results = <<>>
    /\ total_success = 0
    /\ total_skip = 0
    /\ total_files = 0
    /\ total_api_time = 0
    /\ source_dir = <<>>
    /\ output_dir = <<>>
    /\ entries = <<>>
    /\ txt_files = <<>>
    /\ idx = 1
    /\ success_count = 0
    /\ skip_count = 0
    /\ pd_total_api_time = 0
    /\ ret = <<0, 0, 0, 0>>
    /\ traced = FALSE
    /\ log = <<>>
    /\ outDirs \in { {ROOT_OUTPUT_FOLDER},
                     {ROOT_OUTPUT_FOLDER, Join(ROOT_OUTPUT_FOLDER, <<"alpha">>)} }
    /\ outFiles = {}
    /\ apiCalls = 0
    /\ uncaught = ""
    /\ exitStatus = -1

rootVars == <<rootExists, rootEntries, all_dirs, unitIdx, dir_results,
              total_success, total_skip, total_files, total_api_time, traced>>
dirVars == <<source_dir, output_dir, entries, txt_files, idx, success_count,
             skip_count, pd_total_api_time, ret, log>>
worldVars == <<outDirs, outFiles, apiCalls>>

\* lines 103-105, then 208-209: the message, return, and the process ends
RootMissing ==
    /\ pc = "start"
    /\ ~rootExists
    /\ pc' = "exited"
    /\ exitStatus' = 0
    /\ UNCHANGED <<rootVars, dirVars, worldVars, uncaught>>

\* lines 107-132: the listing of the root and the units
EnumerateRoot ==
    /\ pc = "start"
    /\ rootExists
    /\ \E listing \in Listings :
          /\ rootEntries' = listing
          /\ all_dirs' = Units(listing)
    /\ unitIdx' = 1
    /\ dir_results' = <<>>
    /\ total_success' = 0
    /\ total_skip' = 0
    /\ total_files' = 0
    /\ total_api_time' = 0
    /\ pc' = "units"
    /\ UNCHANGED <<rootExists, traced, dirVars, worldVars, uncaught,
                   exitStatus>>

\* line 114: os.listdir raises (the root is unreadable, or no directory);
\* nothing catches it
RootListFails ==
    /\ pc = "start"
    /\ rootExists
    /\ pc' = "crashed"
    /\ uncaught' = "listdir:114"
    /\ exitStatus' = 1
    /\ UNCHANGED <<rootVars, dirVars, worldVars>>

\* what os.listdir of a unit's source directory can yield: the root lists
\* as it did at line 114
ListingsOf(path) ==
    IF path = ROOT_SOURCE_FOLDER THEN {rootEntries} ELSE Listings

AtUnit == pc = "units" /\ unitIdx <= Len(all_dirs)

\* lines 135-146 and 43: os.listdir(source_dir) raises (a subdirectory
\* that cannot be read; the root was listed at line 114 and lists again);
\* nothing catches it
ListUnitFails ==
    /\ AtUnit
    /\ all_dirs[unitIdx].path # ROOT_SOURCE_FOLDER
    /\ source_dir' = all_dirs[unitIdx].path
    /\ output_dir' = OutputDir(all_dirs[unitIdx].name)
    /\ pc' = "crashed"
    /\ uncaught' = "listdir:43"
    /\ exitStatus' = 1
    /\ UNCHANGED <<rootVars, entries, txt_files, idx, success_count,
                   skip_count, pd_total_api_time, ret, log, worldVars>>

\* lines 135-146 and 43-48: no eligible file, the early return
UnitNoFiles ==
    /\ AtUnit
    /\ \E listing \in ListingsOf(all_dirs[unitIdx].path) :
          /\ TxtFiles(listing) = <<>>
          /\ entries' = IF traced THEN listing ELSE <<>>
          /\ txt_files' = TxtFiles(listing)
    /\ source_dir' = all_dirs[unitIdx].path
    /\ output_dir' = OutputDir(all_dirs[unitIdx].name)
    /\ idx' = 1
    /\ success_count' = 0
    /\ skip_count' = 0
    /\ pd_total_api_time' = 0
    /\ log' = <<>>
    /\ ret' = <<0, 0, 0, 0>>
    /\ pc' = "returned"
    /\ UNCHANGED <<rootVars, worldVars, uncaught, exitStatus>>

\* lines 135-146 and 43-57: eligible files, the output directory is ensured
UnitOpen ==
    /\ AtUnit
    /\ \E listing \in ListingsOf(all_dirs[unitIdx].path) :
          /\ TxtFiles(listing) # <<>>
          /\ entries' = IF traced THEN listing ELSE <<>>
          /\ txt_files' = TxtFiles(listing)
    /\ source_dir' = all_dirs[unitIdx].path
    /\ output_dir' = OutputDir(all_dirs[unitIdx].name)
    /\ idx' = 1
    /\ success_count' = 0
    /\ skip_count' = 0
    /\ pd_total_api_time' = 0
    /\ log' = <<>>
    /\ outDirs' = outDirs \cup {OutputDir(all_dirs[unitIdx].name)}
    /\ pc' = "files"
    /\ UNCHANGED <<rootVars, ret, outFiles, apiCalls, uncaught, exitStatus>>

\* line 57: os.makedirs raises (a directory that is there already is no
\* error, exist_ok=True); nothing catches it
MakedirsFails ==
    /\ AtUnit
    /\ OutputDir(all_dirs[unitIdx].name) \notin outDirs
    /\ \E listing \in ListingsOf(all_dirs[unitIdx].path) :
          /\ TxtFiles(listing) # <<>>
          /\ entries' = IF traced THEN listing ELSE <<>>
          /\ txt_files' = TxtFiles(listing)
    /\ source_dir' = all_dirs[unitIdx].path
    /\ output_dir' = OutputDir(all_dirs[unitIdx].name)
    /\ idx' = 1
    /\ success_count' = 0
    /\ skip_count' = 0
    /\ pd_total_api_time' = 0
    /\ log' = <<>>
    /\ pc' = "crashed"
    /\ uncaught' = "makedirs:57"
    /\ exitStatus' = 1
    /\ UNCHANGED <<rootVars, ret, worldVars>>

\* lines 59-96: one file
ProcessFile ==
    /\ pc = "files"
    /\ idx <= Len(txt_files)
    /\ \E env \in FileEnvs :
         LET st == [ success_count  |-> success_count,
                     skip_count     |-> skip_count,
                     total_api_time |-> pd_total_api_time,
                     outFiles       |-> outFiles,
                     apiCalls       |-> apiCalls ]
             nx == LoopBody(st, output_dir, txt_files[idx], env)
         IN  /\ success_count' = nx.success_count
             /\ skip_count' = nx.skip_count
             /\ pd_total_api_time' = nx.total_api_time
             /\ outFiles' = nx.outFiles
             /\ apiCalls' = nx.apiCalls
             /\ log' = IF traced
                       THEN Append(log,
                              [ name   |-> txt_files[idx],
                                env    |-> env,
                                succ   |-> nx.success_count - success_count,
                                skip   |-> nx.skip_count - skip_count,
                                api    |-> nx.total_api_time
                                             - pd_total_api_time,
                                called |-> nx.apiCalls - apiCalls,
                                wrote  |-> nx.outFiles \ outFiles ])
                       ELSE log
             /\ idx' = NextIndex(idx, Len(txt_files), env)
    /\ UNCHANGED <<pc, rootVars, source_dir, output_dir, entries, txt_files,
                   ret, outDirs, uncaught, exitStatus>>

\* line 98
ReturnDirectory ==
    /\ pc = "files"
    /\ idx > Len(txt_files)
    /\ ret' = ReturnTuple(success_count, skip_count, txt_files,
                          pd_total_api_time)
    /\ pc' = "returned"
    /\ UNCHANGED <<rootVars, source_dir, output_dir, entries, txt_files, idx,
                   success_count, skip_count, pd_total_api_time, log,
                   worldVars, uncaught, exitStatus>>

\* lines 146-165: the record is appended and the totals are added to;
\* process_directory's frame is gone
FoldUnit ==
    /\ pc = "returned"
    /\ dir_results' = Append(dir_results,
                             DirRecord(all_dirs[unitIdx].name, ret))
    /\ LET tot == FoldTotals([ success  |-> total_success,
                               skip     |-> total_skip,
                               files    |-> total_files,
                               api_time |-> total_api_time ], ret)
       IN  /\ total_success' = tot.success
           /\ total_skip' = tot.skip
           /\ total_files' = tot.files
           /\ total_api_time' = tot.api_time
    /\ unitIdx' = unitIdx + 1
    /\ source_dir' = <<>>
    /\ output_dir' = <<>>
    /\ entries' = <<>>
    /\ txt_files' = <<>>
    /\ idx' = 1
    /\ success_count' = 0
    /\ skip_count' = 0
    /\ pd_total_api_time' = 0
    /\ ret' = <<0, 0, 0, 0>>
    /\ log' = <<>>
    /\ pc' = "units"
    /\ UNCHANGED <<rootExists, rootEntries, all_dirs, traced, worldVars,
                   uncaught, exitStatus>>

\* lines 167-205, then 208-209: the report, and the process ends
Finish ==
    /\ pc = "units"
    /\ unitIdx > Len(all_dirs)
    /\ pc' = "exited"
    /\ exitStatus' = 0
    /\ UNCHANGED <<rootVars, dirVars, worldVars, uncaught>>

Next ==
    \/ RootMissing
    \/ EnumerateRoot
    \/ RootListFails
    \/ ListUnitFails
    \/ UnitNoFiles
    \/ UnitOpen
    \/ MakedirsFails
    \/ ProcessFile
    \/ ReturnDirectory
    \/ FoldUnit
    \/ Finish

Spec == Init /\ [][Next]_vars

\* process_directory on its own: the run from the moment the loop of line
\* 135 reaches the only unit of a root that has no subdirectory or nothing
\* but one, with the history of its files kept.
InitDir ==
    /\ pc = "units"
    /\ rootExists = TRUE
    /\ \E listing \in Listings :
          /\ SubDirs(listing) = <<>> \/ Len(listing) = 1
          /\ rootEntries = listing
          /\ all_dirs = Units(listing)
    /\ unitIdx = 1
    /\ dir_results = <<>>
    /\ total_success = 0
    /\ total_skip = 0
    /\ total_files = 0
    /\ total_api_time = 0
    /\ source_dir = <<>>
    /\ output_dir = <<>>
    /\ entries = <<>>
    /\ txt_files = <<>>
    /\ idx = 1
    /\ success_count = 0
    /\ skip_count = 0
    /\ pd_total_api_time = 0
    /\ ret = <<0, 0, 0, 0>>
    /\ traced = TRUE
    /\ log = <<>>
    /\ outDirs \in { {ROOT_OUTPUT_FOLDER},
                     {ROOT_OUTPUT_FOLDER, Join(ROOT_OUTPUT_FOLDER, <<"alpha">>)} }
    /\ outFiles = {}
    /\ apiCalls = 0
    /\ uncaught = ""
    /\ exitStatus = -1

NextDir ==
    \/ ListUnitFails
    \/ UnitNoFiles
    \/ UnitOpen
    \/ MakedirsFails
    \/ ProcessFile
    \/ ReturnDirectory
    \/ FoldUnit
    \/ Finish

SpecDir == InitDir /\ [][NextDir]_vars

-----------------------------------------------------------------------------
(* Vocabulary of the properties *)

RECURSIVE SumOver(_, _)
SumOver(f, n) == IF n = 0 THEN 0 ELSE f[n] + SumOver(f, n - 1)

\* an eligible entry: a regular file whose name ends in .txt
Eligible(e) == e.kind = "file" /\ EndsWithTxt(e.name)

EligibleCount(listing) ==
    Cardinality({ i \in 1..Len(listing) : Eligible(listing[i]) })

\* the service call of a file gave no text: it raised, or replied without
\* content
TransformFailed(env) == env.read = "ok" /\ env.api \in {"raise", "null"}

TransformSucceeded(env) == env.read = "ok" /\ env.api = "text"

\* the file hit a read error, a transformer failure or a write error
HitFailure(env) ==
    \/ env.read = "err"
    \/ TransformFailed(env)
    \/ TransformSucceeded(env) /\ env.write = "err"

InDirectory == pc \in {"files", "returned"}

-----------------------------------------------------------------------------
(* C1 *)

\* C1: when process_directory has returned, totalEligible (ret[3]) is the
\* number of eligible .txt files of the listing and each of them was
\* attempted; every file adds at most one to succeeded and skippedEmpty
\* together; succeeded (ret[1]) and skippedEmpty (ret[2]) are the sums of
\* these; and totalEligible - succeeded - skippedEmpty is exactly the number
\* of files that hit a read error, a transformer failure or a write error.
C1_Accounting ==
    pc = "returned" =>
      /\ ret[3] = EligibleCount(entries)
      /\ Len(log) = ret[3]
      /\ \A i \in 1..Len(log) :
           /\ log[i].succ \in {0, 1}
           /\ log[i].skip \in {0, 1}
           /\ log[i].succ + log[i].skip <= 1
      /\ ret[1] = SumOver([i \in 1..Len(log) |-> log[i].succ], Len(log))
      /\ ret[2] = SumOver([i \in 1..Len(log) |-> log[i].skip], Len(log))
      /\ ret[3] - ret[1] - ret[2]
           = Cardinality({ i \in 1..Len(log) : HitFailure(log[i].env) })

\* a directory of two files returned, one succeeded and one failed
C1_Witness ==
    /\ pc = "returned"
    /\ ret[1] = 1 /\ ret[2] = 0 /\ ret[3] = 2
    /\ \E i \in 1..Len(log) : HitFailure(log[i].env)

-----------------------------------------------------------------------------
(* C2 *)

\* C2: at every moment of a run on an existing root, total_files,
\* total_success and total_skip are the sums of total, success and skip over
\* the records appended so far, one record per unit folded.
C2_AdditiveFold ==
    LET n == Len(dir_results) IN
    /\ total_files = SumOver([i \in 1..n |-> dir_results[i].total], n)
    /\ total_success = SumOver([i \in 1..n |-> dir_results[i].success], n)
    /\ total_skip = SumOver([i \in 1..n |-> dir_results[i].skip], n)
    /\ pc = "units" => n = unitIdx - 1

\* two units folded, with successes, a skip and a failure among their files
C2_Witness ==
    /\ Len(dir_results) = 2
    /\ dir_results[1].total > 0 /\ dir_results[2].total > 0
    /\ total_success > 0 /\ total_skip > 0
    /\ total_files > total_success + total_skip

-----------------------------------------------------------------------------
(* C3 *)

\* what the loop did for one file: the counts it added and the output it
\* wrote
Outcome(l) == [succ |-> l.succ, skip |-> l.skip, wrote |-> l.wrote]

\* the loop of lines 59-96 run over the answers envs, from file i on: the
\* outcome per file, "unprocessed" for a file the loop does not reach
RECURSIVE RunOutcomes(_, _, _, _, _)
RunOutcomes(st, out_dir, files, envs, i) ==
    IF i > Len(files) THEN <<>>
    ELSE LET nx == LoopBody(st, out_dir, files[i], envs[i])
             ni == NextIndex(i, Len(files), envs[i])
         IN  << [ succ  |-> nx.success_count - st.success_count,
                  skip  |-> nx.skip_count - st.skip_count,
                  wrote |-> nx.outFiles \ st.outFiles ] >>
             \o [ j \in 1..(ni - i - 1) |-> "unprocessed" ]
             \o RunOutcomes(nx, out_dir, files, envs, ni)

\* the answers under which the call of this file gives text instead
SucceedingInstead(env) ==
    { [env EXCEPT !.api = "text", !.dur = d, !.write = w] :
        d \in 1..MaxDur, w \in {"ok", "err"} }

\* C3: when process_directory has returned and the transformer failed on
\* file k, every file after k was processed, and each of them has the
\* outcome (succeeded, skipped or failed, and the output written) it has in
\* the run that differs only in that the call for file k gives text.
C3_Isolation ==
    pc = "returned" =>
      \A k \in 1..Len(log) :
        TransformFailed(log[k].env) =>
          /\ Len(log) = Len(txt_files)
          /\ \A alt \in SucceedingInstead(log[k].env) :
               LET envs == [ i \in 1..Len(log) |->
                               IF i = k THEN alt ELSE log[i].env ]
                   other == RunOutcomes(
                              [ success_count  |-> 0,
                                skip_count     |-> 0,
                                total_api_time |-> 0,
                                outFiles       |-> {},
                                apiCalls       |-> 0 ],
                              output_dir, txt_files, envs, 1)
               IN  \A j \in (k + 1)..Len(txt_files) :
                     Outcome(log[j]) = other[j]

\* the transformer failed on the first of two files and the second one
\* succeeded
C3_Witness ==
    /\ pc = "returned"
    /\ Len(log) = 2
    /\ TransformFailed(log[1].env)
    /\ log[2].succ = 1
    /\ log[2].wrote # {}

-----------------------------------------------------------------------------
(* C4 *)

\* C4: a file read successfully whose content is empty or whitespace only
\* adds exactly one to skip_count, causes no service call and no output
\* file.
C4_EmptySkipped ==
    InDirectory =>
      \A i \in 1..Len(log) :
        (log[i].env.read = "ok" /\ IsBlank(log[i].env.content)) =>
          /\ log[i].skip = 1
          /\ log[i].succ = 0
          /\ log[i].called = 0
          /\ log[i].wrote = {}
          /\ OutputPath(output_dir, log[i].name) \notin outFiles

\* a whitespace-only file and an empty file were skipped, and no call made
C4_Witness ==
    /\ pc = "returned"
    /\ Len(log) = 2
    /\ log[1].env.read = "ok" /\ log[1].env.content # <<>>
    /\ IsBlank(log[1].env.content)
    /\ log[2].env.read = "ok" /\ log[2].env.content = <<>>
    /\ ret[2] = 2
    /\ apiCalls = 0

-----------------------------------------------------------------------------
(* C5 *)

\* C5: the step in which process_directory lists a directory that holds no
\* eligible file returns <<0, 0, 0, 0>> at once, makes no service call,
\* writes no file and creates no directory (the output directory of the
\* unit included).
C5_NoEligibleFiles ==
    [][ ( /\ pc = "units"
          /\ pc' \in {"files", "returned"}
          /\ EligibleCount(entries') = 0 )
        => ( /\ pc' = "returned"
             /\ ret' = <<0, 0, 0, 0>>
             /\ apiCalls' = apiCalls
             /\ outFiles' = outFiles
             /\ outDirs' = outDirs ) ]_vars

\* process_directory returned for a directory that holds entries, none of
\* them eligible, and the output directory of the unit does not exist
C5_Witness ==
    /\ pc = "returned"
    /\ entries # <<>>
    /\ EligibleCount(entries) = 0
    /\ \E i \in 1..Len(entries) : EndsWithTxt(entries[i].name)
    /\ ret = <<0, 0, 0, 0>>
    /\ output_dir # ROOT_OUTPUT_FOLDER
    /\ output_dir \notin outDirs

-----------------------------------------------------------------------------
(* C6 *)

DirNames(listing) ==
    { listing[i].name : i \in { j \in 1..Len(listing) : listing[j].kind = "dir" } }

EligibleNames(listing) ==
    LET keep(e) == Eligible(e)
        sel == SelectSeq(listing, keep)
    IN  [ i \in 1..Len(sel) |-> sel[i].name ]

Enumerated == pc \in {"units", "files", "returned", "exited"} /\ rootExists

\* the units of process_root_directory, given the label the record of the
\* root-as-unit carries
UnitsAsStated(rootLabel) ==
    Enumerated =>
      IF DirNames(rootEntries) = {}
      THEN /\ Len(all_dirs) = 1
           /\ all_dirs[1].path = ROOT_SOURCE_FOLDER
           /\ \A i \in 1..Len(dir_results) : dir_results[i].name = rootLabel
           /\ InDirectory =>
                /\ source_dir = ROOT_SOURCE_FOLDER
                /\ output_dir = ROOT_OUTPUT_FOLDER
                /\ txt_files = EligibleNames(rootEntries)
           /\ \A f \in outFiles : Len(f) = Len(ROOT_OUTPUT_FOLDER) + 1
      ELSE /\ Len(all_dirs) = Cardinality(DirNames(rootEntries))
           /\ { all_dirs[i].name : i \in 1..Len(all_dirs) }
                = DirNames(rootEntries)
           /\ \A i \in 1..Len(all_dirs) :
                /\ all_dirs[i].path
                     = Join(ROOT_SOURCE_FOLDER, all_dirs[i].name)
                /\ all_dirs[i].path # ROOT_SOURCE_FOLDER
           /\ \A i \in 1..Len(dir_results) :
                dir_results[i].name = all_dirs[i].name
           /\ InDirectory =>
                output_dir = Join(ROOT_OUTPUT_FOLDER, all_dirs[unitIdx].name)

-----------------------------------------------------------------------------
(* C7 *)

\* C7: success_count counts exactly the files whose call gave text and whose
\* write completed; a file whose write failed is not counted; a file whose
\* call failed has no output written; and when the call failed for every one
\* of n non-empty files, the result is succeeded 0, skippedEmpty 0,
\* totalEligible n, with no output file written.
C7_SucceededMeansWritten ==
    InDirectory =>
      /\ success_count
           = Cardinality({ i \in 1..Len(log) :
                             /\ TransformSucceeded(log[i].env)
                             /\ log[i].env.write = "ok" })
      /\ \A i \in 1..Len(log) :
           /\ (TransformSucceeded(log[i].env) /\ log[i].env.write = "err")
                => log[i].succ = 0
           /\ TransformFailed(log[i].env) =>
                /\ log[i].succ = 0
                /\ log[i].wrote = {}
                /\ OutputPath(output_dir, log[i].name) \notin outFiles
           /\ log[i].succ = 1 =>
                OutputPath(output_dir, log[i].name) \in outFiles
      /\ ( /\ pc = "returned"
           /\ log # <<>>
           /\ \A i \in 1..Len(log) : TransformFailed(log[i].env) )
         => ( /\ ret[1] = 0
              /\ ret[2] = 0
              /\ ret[3] = Len(log)
              /\ outFiles = {} )

\* of two files, the write of the first failed after a successful call and
\* the call of the second failed: nothing succeeded, nothing was written
C7_Witness ==
    /\ pc = "returned"
    /\ Len(log) = 2
    /\ TransformSucceeded(log[1].env) /\ log[1].env.write = "err"
    /\ TransformFailed(log[2].env)
    /\ ret[1] = 0
    /\ outFiles = {}

-----------------------------------------------------------------------------
(* C8 *)

\* C8: on an existing root no error of a unit (the listing of its entries,
\* the creation of its output directory, its files) leaves the orchestrator;
\* the records are appended one per unit in enumeration order, and the run
\* reaches the final summary with one record per unit.
C8_DirectoryIsolation ==
    rootExists =>
      /\ uncaught \notin {"listdir:43", "makedirs:57"}
      /\ Len(dir_results) <= Len(all_dirs)
      /\ pc = "units" => Len(dir_results) = unitIdx - 1
      /\ pc = "exited" => Len(dir_results) = Len(all_dirs)

-----------------------------------------------------------------------------
(* C9 *)

\* C9: when the root does not exist the run ends before any unit is
\* enumerated or processed, with no service call and no output file, and
\* with a non-zero exit status; when the root exists the run ends with exit
\* status zero.
C9_ExitStatus ==
    pc \in {"exited", "crashed"} =>
      IF rootExists
      THEN exitStatus = 0
      ELSE /\ exitStatus # 0
           /\ all_dirs = <<>>
           /\ dir_results = <<>>
           /\ apiCalls = 0
           /\ outFiles = {}

-----------------------------------------------------------------------------
(* C10 *)

\* C10: the cumulativeApiTime process_directory returns (ret[4]) is the sum
\* of the durations of the calls that gave text, whether or not the write
\* succeeded; a file whose call failed, a skipped file and a file that
\* could not be read add nothing.
C10_ApiTime ==
    pc = "returned" =>
      /\ ret[4] = SumOver([ i \in 1..Len(log) |->
                              IF TransformSucceeded(log[i].env)
                              THEN log[i].env.dur ELSE 0 ], Len(log))
      /\ \A i \in 1..Len(log) :
           ~TransformSucceeded(log[i].env) => log[i].api = 0

====
